---- MODULE Spec2Model ----
(***************************************************************************)
(* Model of the polling loop of polling.py (main): the change tracker      *)
(* (last_lifelogs), the fetch cursor (last_stable_end_time), the           *)
(* transcript writer (written_logs), the trigger alerts                    *)
(* (alerted_triggers) and the backoff controller (backoff).                *)
(*                                                                         *)
(* A lifelog is a record [id, content, endTime].  A content is a sequence  *)
(* of words; endTime is an integer ordering key.  Python's None is the     *)
(* empty sequence <<>> and a present value x is <<x>>.  A dict is a        *)
(* function whose DOMAIN is its key set.                                   *)
(*                                                                         *)
(* The source of the lifelogs is outside the program: a fetch returns any  *)
(* entries with pairwise distinct ids, in any order and with any endTime,  *)
(* or fails.  The batch is drawn entry by entry as the for loop consumes   *)
(* it.  Time is logical: entry_time counts the readings of the clock at    *)
(* the transcript write, so two writes never carry the same time.          *)
(***************************************************************************)
EXTENDS Integers, Sequences, FiniteSets, TLC

\* ---------------------------------------------------------------- bounds
MaxEndTime == 2
MaxStable == 4
MaxTranscript == 2
MaxFails == 1
MaxBackoffFails == 7
MaxCalls == 4          \* calls of handle_trigger
MaxLines == 6          \* lines of a transcript file given to deduplicate_transcript

\* ------------------------------------------------------ program constants
BACKOFF_INITIAL == 5
BACKOFF_MAX == 300
STABLE_POLLS_REQUIRED == 3
TRIGGER_WORDS == {"to do list", "perplexity", "julio"}

\* ------------------------------------------------------------ input sets
Ids == {"a", "b"}
Contents == {<<"hi">>, <<"Julio">>}
EndTimes == 1..MaxEndTime
Lifelogs == [id : Ids, content : Contents, endTime : EndTimes]
\* the entries of the trigger runs: two spellings, two phrases in one content
TriggerContents == {<<"hi">>, <<"JULIO">>, <<"Julio", "perplexity">>}
TriggerLifelogs == [id : Ids, content : TriggerContents, endTime : {1}]
\* the one entry the source returns in the backoff runs
BackoffLifelogs == {[id |-> "a", content |-> <<"Julio">>, endTime |-> 1]}

None == <<>>
Some(x) == <<x>>

VARIABLES
    pc,                    \* position of main's loop
    last_lifelogs,         \* dict id -> [content, endTime, stable_count]
    last_stable_end_time,  \* None or Some(endTime)
    backoff,
    alerted_triggers,      \* set of lowercased phrases
    written_logs,          \* dict id -> content last written
    updated_ids,           \* ids seen in the batch being processed
    most_recent_update,    \* None or Some([lifelog, prev])
    lifelog,               \* loop variable: None or Some(entry just processed)
    changed_ids,           \* history: ids found new or changed in this batch
    dropped,               \* history: id -> stable_count of the records just dropped
    transcript,            \* the transcript file: sequence of appended blocks
    ntfy,                  \* None or Some(lifelog) posted to NTFY_URL this cycle
    slept,                 \* argument of the latest time.sleep
    fails,                 \* history: consecutive failed cycles
    entry_time,            \* time of the latest transcript write attempt, 0 unbound
    trigger_posts,         \* trigger alerts delivered: sequence of [phrase, time]
    first_seen,            \* history: phrase -> time of the first entry containing it
    julio_triggered,       \* the fired flag handle_trigger takes and returns
    pending,               \* history: ids recorded new or changed, cycle not yet notified
    file,                  \* the lines of the file deduplicate_transcript rewrites
    original               \* history: those lines before the first rewrite

vars == <<pc, last_lifelogs, last_stable_end_time, backoff, alerted_triggers,
          written_logs, updated_ids, most_recent_update, lifelog, changed_ids,
          dropped, transcript, ntfy, slept, fails, entry_time, trigger_posts,
          first_seen, julio_triggered, pending, file, original>>

\* the variables of the trigger alerts
trigvars == <<entry_time, trigger_posts, first_seen, julio_triggered>>

\* the variables of the transcript deduplication
filevars == <<file, original>>

\* ------------------------------------------------------------- helpers
Min(x, y) == IF x <= y THEN x ELSE y

\* str.lower() on the words of the model
Lower(w) ==
    CASE w = "JULIO" -> "julio"
      [] w = "Julio" -> "julio"
      [] OTHER -> w

\* TRIGGER_PATTERN matches a word iff its lowercase is a trigger word
IsTrigger(w) == Lower(w) \in TRIGGER_WORDS

\* TRIGGER_PATTERN.search(raw): the leftmost match, None if there is none
RECURSIVE TriggerSearch(_)
TriggerSearch(raw) ==
    IF raw = <<>> THEN None
    ELSE IF IsTrigger(Head(raw)) THEN Some(Head(raw))
    ELSE TriggerSearch(Tail(raw))

\* TRIGGER_PATTERN.sub(highlight, raw): every match wrapped in ** **
Highlight(raw) ==
    [k \in 1..Len(raw) |->
        IF IsTrigger(raw[k]) THEN "**" \o raw[k] \o "**" ELSE raw[k]]

\* dict.update with one key
Put(d, k, v) == [x \in (DOMAIN d) \cup {k} |-> IF x = k THEN v ELSE d[x]]

\* dict restricted to the keys in s
Restrict(d, s) == [x \in (DOMAIN d) \cap s |-> d[x]]

EmptyDict == [x \in {} |-> None]

Init ==
    /\ pc = "fetch"
    /\ last_lifelogs = EmptyDict
    /\ last_stable_end_time = None
    /\ backoff = BACKOFF_INITIAL
    /\ alerted_triggers = {}
    /\ written_logs = EmptyDict
    /\ updated_ids = {}
    /\ most_recent_update = None
    /\ lifelog = None
    /\ changed_ids = {}
    /\ dropped = EmptyDict
    /\ transcript = <<>>
    /\ ntfy = None
    /\ slept = 0
    /\ fails = 0
    /\ entry_time = 0
    /\ trigger_posts = <<>>
    /\ first_seen = EmptyDict
    /\ julio_triggered = FALSE
    /\ pending = {}
    /\ file = <<>>
    /\ original = <<>>

\* ------------------------------------------------------ the change tracker
\* last_lifelogs.get(lifelog_id)
Prev(e) ==
    IF e.id \in DOMAIN last_lifelogs THEN Some(last_lifelogs[e.id]) ELSE None

\* the entry differs from the record kept for its id
Differs(prev, e) ==
    e.content # prev[1].content \/ e.endTime # prev[1].endTime

\* Track without the increment of an unchanged entry
TrackNoIncrement(prev, e) ==
    IF prev = None \/ Differs(prev, e)
    THEN [content |-> e.content, endTime |-> e.endTime, stable_count |-> 1]
    ELSE prev[1]

\* Track that keeps the count of a changed entry
TrackKeepCount(prev, e) ==
    IF prev = None
    THEN [content |-> e.content, endTime |-> e.endTime, stable_count |-> 1]
    ELSE IF Differs(prev, e)
         THEN [content |-> e.content, endTime |-> e.endTime,
               stable_count |-> prev[1].stable_count]
         ELSE [prev[1] EXCEPT !.stable_count = @ + 1]

\* the record stored for the entry's id
Track(prev, e) ==
    IF prev = None \/ Differs(prev, e)
    THEN [content |-> e.content, endTime |-> e.endTime, stable_count |-> 1]
    ELSE [prev[1] EXCEPT !.stable_count = @ + 1]

\* Candidate with the endTime comparison applied to new entries too
CandidateIfGreater(mru, prev, e) ==
    IF prev = None \/ Differs(prev, e)
    THEN IF mru = None \/ e.endTime > mru[1].lifelog.endTime
         THEN Some([lifelog |-> e,
                    prev |-> IF prev = None THEN <<>> ELSE prev[1].content])
         ELSE mru
    ELSE mru

\* most_recent_update after the entry
Candidate(mru, prev, e) ==
    IF prev = None THEN Some([lifelog |-> e, prev |-> <<>>])
    ELSE IF Differs(prev, e)
         THEN IF mru = None \/ e.endTime > mru[1].lifelog.endTime
              THEN Some([lifelog |-> e, prev |-> prev[1].content])
              ELSE mru
         ELSE mru

\* Forget that keeps the records that reached the stability threshold
ForgetUnstable(ll, seen) ==
    Restrict(ll, seen \cup {i \in DOMAIN ll : ll[i].stable_count >= STABLE_POLLS_REQUIRED})

\* ids dropped after the batch
Forget(ll, seen) == Restrict(ll, seen)

\* ---------------------------------------------------- the transcript writer
\* WriteNeeded without the comparison with written_logs
WriteAlways(wl, e) == TRUE

\* WriteNeeded that looks for the id only, not for the content written
WriteNeededOnce(wl, e) == e.id \notin DOMAIN wl

\* written_logs.get(lifelog_id) != content
WriteNeeded(wl, e) ==
    IF e.id \in DOMAIN wl THEN wl[e.id] # e.content ELSE TRUE

\* ------------------------------------------------------ the trigger alert
\* the phrase to alert on: Some(phrase) if a POST is due, else None
TriggerDue(alerted, raw) ==
    LET m == TriggerSearch(raw) IN
    IF m # None /\ Lower(m[1]) \notin alerted THEN Some(Lower(m[1])) ELSE None

\* ------------------------------------------------------ the cursor advancer
\* StableLifelogs one poll early
StableLifelogsEarly(ll) ==
    {i \in DOMAIN ll : ll[i].stable_count >= STABLE_POLLS_REQUIRED - 1}

StableLifelogs(ll) ==
    {i \in DOMAIN ll : ll[i].stable_count >= STABLE_POLLS_REQUIRED}

MaxOf(s) == CHOOSE x \in s : \A y \in s : y <= x

LatestStable(ll, cur) ==
    IF StableLifelogs(ll) # {}
    THEN Some(MaxOf({ll[i].endTime : i \in StableLifelogs(ll)}))
    ELSE cur

\* ---------------------------------------------------- the backoff controller
SuccessSleep(b) == b
SuccessBackoff(b) == BACKOFF_INITIAL
FailureSleep(b) == b
\* FailureBackoff without the cap
FailureBackoffUncapped(b) == b * 2

FailureBackoff(b) == Min(b * 2, BACKOFF_MAX)

\* ----------------------------------------------------------------- actions
\* fetch_lifelogs returns a batch
FetchOk ==
    /\ pc = "fetch"
    /\ pc' = "loop"
    /\ updated_ids' = {}
    /\ most_recent_update' = None
    /\ changed_ids' = {}
    /\ ntfy' = None
    /\ lifelog' = None
    /\ UNCHANGED <<last_lifelogs, last_stable_end_time, backoff,
                   alerted_triggers, written_logs, dropped, transcript, slept,
                   fails, trigvars, pending, filevars>>

\* fetch_lifelogs raises (network error, non-2xx, malformed JSON)
FetchFail(maxf) ==
    /\ pc = "fetch"
    /\ fails < maxf
    /\ pc' = "except"
    /\ UNCHANGED <<last_lifelogs, last_stable_end_time, backoff,
                   alerted_triggers, written_logs, updated_ids,
                   most_recent_update, lifelog, changed_ids, dropped,
                   transcript, ntfy, slept, fails, trigvars, pending, filevars>>

\* the lowercased trigger phrases in a content
Phrases(raw) == {Lower(raw[k]) : k \in {j \in 1..Len(raw) : IsTrigger(raw[j])}}

\* one iteration of the for loop over the batch, for the entry e; the
\* histories of the alerts and of the pending changes are kept iff hist
ProcessEntry(e, maxf, hist) ==
    LET prev == Prev(e)
        due == TriggerDue(alerted_triggers, e.content)
        write == WriteNeeded(written_logs, e)
        \* entry_time after line 244
        time == IF write THEN entry_time + 1 ELSE entry_time
        appended == /\ transcript' = IF write
                                      THEN Append(transcript, Highlight(e.content))
                                      ELSE transcript
                    /\ written_logs' = IF write
                                        THEN Put(written_logs, e.id, e.content)
                                        ELSE written_logs
                    /\ first_seen' =
                          IF hist
                          THEN [p \in DOMAIN first_seen \cup Phrases(e.content) |->
                                  IF p \in DOMAIN first_seen THEN first_seen[p]
                                  ELSE time]
                          ELSE first_seen
    IN
    /\ pc = "loop"
    /\ e.id \notin updated_ids
    /\ Track(prev, e).stable_count <= MaxStable
    /\ write => entry_time < MaxTranscript
    /\ lifelog' = Some(e)
    /\ last_lifelogs' = Put(last_lifelogs, e.id, Track(prev, e))
    /\ most_recent_update' = Candidate(most_recent_update, prev, e)
    /\ changed_ids' = IF prev = None \/ Differs(prev, e)
                       THEN changed_ids \cup {e.id} ELSE changed_ids
    /\ pending' = IF hist /\ (prev = None \/ Differs(prev, e))
                   THEN pending \cup {e.id} ELSE pending
    /\ updated_ids' = updated_ids \cup {e.id}
    /\ entry_time' = time
    /\ \/ \* open(transcript_file, "a") or write raises
          /\ write
          /\ fails < maxf
          /\ pc' = "except"
          /\ UNCHANGED <<transcript, written_logs, alerted_triggers,
                         trigger_posts, first_seen>>
       \/ \* the trigger POST raises
          /\ due # None
          /\ fails < maxf
          /\ appended
          /\ pc' = "except"
          /\ UNCHANGED <<alerted_triggers, trigger_posts>>
       \/ \* the iteration completes
          /\ appended
          /\ alerted_triggers' = IF due # None
                                  THEN alerted_triggers \cup {due[1]}
                                  ELSE alerted_triggers
          /\ trigger_posts' = IF hist /\ due # None
                               THEN Append(trigger_posts,
                                           [phrase |-> due[1], time |-> time])
                               ELSE trigger_posts
          /\ pc' = "loop"
    /\ UNCHANGED <<last_stable_end_time, backoff, dropped, ntfy, slept, fails,
                   julio_triggered, filevars>>

\* the batch is exhausted: ids not seen in it are dropped
EndLoop ==
    /\ pc = "loop"
    /\ last_lifelogs' = Forget(last_lifelogs, updated_ids)
    /\ dropped' = [i \in (DOMAIN last_lifelogs) \ (DOMAIN last_lifelogs') |->
                      last_lifelogs[i].stable_count]
    /\ lifelog' = None
    /\ pc' = "notify"
    /\ UNCHANGED <<last_stable_end_time, backoff, alerted_triggers,
                   written_logs, updated_ids, most_recent_update, changed_ids,
                   transcript, ntfy, slept, fails, trigvars, pending, filevars>>

\* the change notification and the audit log record
Notify(maxf) ==
    /\ pc = "notify"
    /\ \/ /\ most_recent_update = None
          /\ pc' = "advance"
          /\ UNCHANGED ntfy
       \/ \* send_ntfy_notification raises
          /\ most_recent_update # None
          /\ fails < maxf
          /\ pc' = "except"
          /\ UNCHANGED ntfy
       \/ \* the notification is sent; log_difference raises
          /\ most_recent_update # None
          /\ fails < maxf
          /\ ntfy' = Some(most_recent_update[1].lifelog)
          /\ pc' = "except"
       \/ /\ most_recent_update # None
          /\ ntfy' = Some(most_recent_update[1].lifelog)
          /\ pc' = "advance"
    /\ dropped' = EmptyDict
    /\ pending' = IF pc' = "except" /\ ntfy' # None THEN {} ELSE pending
    /\ UNCHANGED <<last_lifelogs, last_stable_end_time, backoff,
                   alerted_triggers, written_logs, updated_ids,
                   most_recent_update, lifelog, changed_ids, transcript, slept,
                   fails, trigvars, filevars>>

\* the cursor follows the stable entries
Advance ==
    /\ pc = "advance"
    /\ last_stable_end_time' = LatestStable(last_lifelogs, last_stable_end_time)
    /\ pc' = "sleep"
    /\ UNCHANGED <<last_lifelogs, backoff, alerted_triggers, written_logs,
                   updated_ids, most_recent_update, lifelog, changed_ids,
                   dropped, transcript, ntfy, slept, fails, trigvars, pending, filevars>>

\* end of a successful cycle
SleepOk ==
    /\ pc = "sleep"
    /\ slept' = SuccessSleep(backoff)
    /\ backoff' = SuccessBackoff(backoff)
    /\ fails' = 0
    /\ pending' = {}
    /\ pc' = "fetch"
    /\ UNCHANGED <<last_lifelogs, last_stable_end_time, alerted_triggers,
                   written_logs, updated_ids, most_recent_update, lifelog,
                   changed_ids, dropped, transcript, ntfy, trigvars, filevars>>

\* an except handler that ends the process
ExceptTerminates ==
    /\ pc = "except"
    /\ pc' = "halt"
    /\ UNCHANGED <<last_lifelogs, last_stable_end_time, backoff,
                   alerted_triggers, written_logs, updated_ids,
                   most_recent_update, lifelog, changed_ids, dropped,
                   transcript, ntfy, slept, fails, trigvars, pending, filevars>>

\* an except handler that advances the cursor before it sleeps
ExceptAdvancing ==
    /\ pc = "except"
    /\ last_stable_end_time' = LatestStable(last_lifelogs, last_stable_end_time)
    /\ slept' = FailureSleep(backoff)
    /\ backoff' = FailureBackoff(backoff)
    /\ fails' = fails + 1
    /\ pc' = "fetch"
    /\ UNCHANGED <<last_lifelogs, alerted_triggers, written_logs, updated_ids,
                   most_recent_update, lifelog, changed_ids, dropped,
                   transcript, ntfy, trigvars, pending, filevars>>

\* the except handler
Except ==
    /\ pc = "except"
    /\ slept' = FailureSleep(backoff)
    /\ backoff' = FailureBackoff(backoff)
    /\ fails' = fails + 1
    /\ pc' = "fetch"
    /\ UNCHANGED <<last_lifelogs, last_stable_end_time, alerted_triggers,
                   written_logs, updated_ids, most_recent_update, lifelog,
                   changed_ids, dropped, transcript, ntfy, trigvars, pending, filevars>>

\* one step of main with entries drawn from L and at most maxf failures in a
\* row, the histories kept iff hist
Step(L, maxf, hist) ==
    \/ FetchOk
    \/ FetchFail(maxf)
    \/ \E e \in L : ProcessEntry(e, maxf, hist)
    \/ EndLoop
    \/ Notify(maxf)
    \/ Advance
    \/ SleepOk
    \/ Except

Next == Step(Lifelogs, MaxFails, FALSE)

Spec == Init /\ [][Next]_vars

\* the same loop against a source with one entry, failing up to the backoff cap
NextBackoff == Step(BackoffLifelogs, MaxBackoffFails, FALSE)

SpecBackoff == Init /\ [][NextBackoff]_vars

\* the process is never suspended for good: time.sleep returns and every
\* request returns or raises
LiveBackoff == SpecBackoff /\ WF_vars(NextBackoff)

\* the same loop against entries that spell the trigger phrases in several
\* ways, the histories of the alerts and of the pending changes kept
NextTrigger == Step(TriggerLifelogs, MaxFails, TRUE)

SpecTrigger == Init /\ [][NextTrigger]_vars

\* ------------------------------------------------- transcript deduplication
\* A file is the sequence of its lines and a line the sequence of its words,
\* the empty sequence for a blank line.  Every line ends with a newline.
Title == <<"#", "transcript">>
Blank == <<>>
DedupLines == {Title, Blank, <<"##", "h1">>, <<"##", "h2">>}
                  \cup {Highlight(c) : c \in Contents}
Files == UNION {[1..n -> DedupLines] : n \in 0..MaxLines}

\* line.startswith("## ")
IsMarker(line) == Len(line) > 0 /\ line[1] = "##"

\* "".join(entry_lines).strip(): the blank lines at both ends are dropped
RECURSIVE LStrip(_)
LStrip(ls) ==
    IF ls # <<>> /\ Head(ls) = Blank THEN LStrip(Tail(ls)) ELSE ls

RECURSIVE RStrip(_)
RStrip(ls) ==
    IF ls # <<>> /\ ls[Len(ls)] = Blank
    THEN RStrip(SubSeq(ls, 1, Len(ls) - 1)) ELSE ls

Strip(ls) == RStrip(LStrip(ls))

\* the index of the first marker line, 0 if there is none
FirstMarker(ls) ==
    IF \E k \in 1..Len(ls) : IsMarker(ls[k])
    THEN CHOOSE k \in 1..Len(ls) :
             /\ IsMarker(ls[k])
             /\ \A j \in 1..(k - 1) : ~IsMarker(ls[j])
    ELSE 0

\* a flush that forgets the entry still open at the end of the file
FlushNever(header, entry_lines, seen, entries) == entries

\* lines 166-169: the entry still open at the end of the file
Flush(header, entry_lines, seen, entries) ==
    IF Strip(entry_lines) \notin seen
    THEN Append(entries, <<header, entry_lines>>)
    ELSE entries

\* lines 153-164: the loop over the lines after the first marker
RECURSIVE Scan(_, _, _, _, _)
Scan(rest, header, entry_lines, seen, entries) ==
    IF rest = <<>> THEN Flush(header, entry_lines, seen, entries)
    ELSE IF IsMarker(Head(rest))
    THEN IF Strip(entry_lines) \notin seen
         THEN Scan(Tail(rest), Head(rest), <<>>,
                   seen \cup {Strip(entry_lines)},
                   Append(entries, <<header, entry_lines>>))
         ELSE Scan(Tail(rest), Head(rest), <<>>, seen, entries)
    ELSE Scan(Tail(rest), header, Append(entry_lines, Head(rest)), seen, entries)

\* lines 171-175: the header and the lines of every kept entry
RECURSIVE Flatten(_)
Flatten(entries) ==
    IF entries = <<>> THEN <<>>
    ELSE <<Head(entries)[1]>> \o Head(entries)[2] \o Flatten(Tail(entries))

\* deduplicate_transcript on a file that exists
DeduplicateTranscript(ls) ==
    LET k == FirstMarker(ls) IN
    IF k = 0 THEN ls
    ELSE SubSeq(ls, 1, k - 1)
           \o Flatten(Scan(SubSeq(ls, k + 1, Len(ls)), ls[k], <<>>, {}, <<>>))

\* the file after the transcript writer appended the blocks bs to a new file
RECURSIVE WriterFile(_)
WriterFile(bs) ==
    IF bs = <<>> THEN <<Title, Blank>>
    ELSE WriterFile(SubSeq(bs, 1, Len(bs) - 1)) \o <<bs[Len(bs)], Blank>>

\* the state of a process before its first poll, the position left open
Fresh ==
    /\ last_lifelogs = EmptyDict
    /\ last_stable_end_time = None
    /\ backoff = BACKOFF_INITIAL
    /\ alerted_triggers = {}
    /\ written_logs = EmptyDict
    /\ updated_ids = {}
    /\ most_recent_update = None
    /\ lifelog = None
    /\ changed_ids = {}
    /\ dropped = EmptyDict
    /\ transcript = <<>>
    /\ ntfy = None
    /\ slept = 0
    /\ fails = 0
    /\ entry_time = 0
    /\ trigger_posts = <<>>
    /\ first_seen = EmptyDict
    /\ julio_triggered = FALSE
    /\ pending = {}

InitDedup ==
    /\ pc = "startup"
    /\ file \in Files
    /\ original = file
    /\ Fresh

\* line 188: the file of the day exists when the process starts
Startup ==
    /\ pc = "startup"
    /\ file' = DeduplicateTranscript(file)
    /\ pc' = "deduped"
    /\ UNCHANGED <<last_lifelogs, last_stable_end_time, backoff,
                   alerted_triggers, written_logs, updated_ids,
                   most_recent_update, lifelog, changed_ids, dropped,
                   transcript, ntfy, slept, fails, trigvars, pending, original>>

\* the function applied to the file it has just rewritten
Again ==
    /\ pc = "deduped"
    /\ file' = DeduplicateTranscript(file)
    /\ pc' = "again"
    /\ UNCHANGED <<last_lifelogs, last_stable_end_time, backoff,
                   alerted_triggers, written_logs, updated_ids,
                   most_recent_update, lifelog, changed_ids, dropped,
                   transcript, ntfy, slept, fails, trigvars, pending, original>>

NextDedup == Startup \/ Again

SpecDedup == InitDedup /\ [][NextDedup]_vars

\* ------------------------------------------------------- handle_trigger
\* The function the tests call; the module under src/ does not define it.
HandleTexts == {<<"hello", "Julio">>, <<"Julio", "again">>, <<"perplexity">>,
                <<"hi">>}

\* handle_trigger that keeps "julio" in the alerted set like every other phrase
HandleTriggerByAlerted(text, time, alerted, triggered) ==
    LET m == TriggerSearch(text) IN
    IF m = None \/ Lower(m[1]) \in alerted
    THEN [post |-> None, alerted |-> alerted, triggered |-> triggered]
    ELSE [post |-> Some([phrase |-> Lower(m[1]), time |-> time]),
          alerted |-> alerted \cup {Lower(m[1])},
          triggered |-> triggered \/ Lower(m[1]) = "julio"]

\* handle_trigger(text, entry_time, alerted, triggered): the alert it posts,
\* the alerted set it leaves and the flag it returns
HandleTrigger(text, time, alerted, triggered) ==
    LET m == TriggerSearch(text) IN
    IF m = None
    THEN [post |-> None, alerted |-> alerted, triggered |-> triggered]
    ELSE IF Lower(m[1]) = "julio"
    THEN [post |-> IF triggered THEN None
                   ELSE Some([phrase |-> "julio", time |-> time]),
          alerted |-> alerted, triggered |-> TRUE]
    ELSE [post |-> IF Lower(m[1]) \in alerted THEN None
                   ELSE Some([phrase |-> Lower(m[1]), time |-> time]),
          alerted |-> alerted \cup {Lower(m[1])}, triggered |-> triggered]

InitHandle ==
    /\ pc = "run"
    /\ file = <<>>
    /\ original = <<>>
    /\ Fresh

\* one call, the flag threaded through as the tests thread it
Handle(text) ==
    LET r == HandleTrigger(text, entry_time + 1, alerted_triggers, julio_triggered)
    IN
    /\ pc = "run"
    /\ entry_time < MaxCalls
    /\ entry_time' = entry_time + 1
    /\ trigger_posts' = IF r.post # None
                         THEN Append(trigger_posts, r.post[1])
                         ELSE trigger_posts
    /\ alerted_triggers' = r.alerted
    /\ julio_triggered' = r.triggered
    /\ UNCHANGED <<pc, last_lifelogs, last_stable_end_time, backoff,
                   written_logs, updated_ids, most_recent_update, lifelog,
                   changed_ids, dropped, transcript, ntfy, slept, fails,
                   first_seen, pending, filevars>>

\* a new run: the flag starts false, the alerted set is the one in use
NewRun ==
    /\ pc = "run"
    /\ julio_triggered
    /\ julio_triggered' = FALSE
    /\ UNCHANGED <<pc, last_lifelogs, last_stable_end_time, backoff,
                   alerted_triggers, written_logs, updated_ids,
                   most_recent_update, lifelog, changed_ids, dropped,
                   transcript, ntfy, slept, fails, entry_time, trigger_posts,
                   first_seen, pending, filevars>>

NextHandle == (\E text \in HandleTexts : Handle(text)) \/ NewRun

SpecHandle == InitHandle /\ [][NextHandle]_vars

\* ------------------------------------------------------------------ claims
\* a step that is one iteration of the for loop; lifelog' is the entry processed
Iteration == pc = "loop" /\ pc' # "notify" /\ lifelog' # None

\* C1: an entry whose id is not tracked when it is processed gets a record
\* with its content, its endTime and stable_count 1, and becomes the
\* most recent update with previous content "".
C1_NewEntry ==
    [][(Iteration /\ lifelog'[1].id \notin DOMAIN last_lifelogs) =>
          /\ lifelog'[1].id \in DOMAIN last_lifelogs'
          /\ last_lifelogs'[lifelog'[1].id] =
                 [content |-> lifelog'[1].content,
                  endTime |-> lifelog'[1].endTime,
                  stable_count |-> 1]
          /\ most_recent_update' = Some([lifelog |-> lifelog'[1], prev |-> <<>>])
      ]_vars

\* a new entry was processed after another entry of the batch with a greater
\* endTime, and is the most recent update
C1_Witness ==
    /\ pc = "loop"
    /\ lifelog # None
    /\ updated_ids = Ids
    /\ changed_ids = Ids
    /\ most_recent_update = Some([lifelog |-> lifelog[1], prev |-> <<>>])
    /\ last_lifelogs[lifelog[1].id].stable_count = 1
    /\ \E i \in Ids : last_lifelogs[i].endTime > lifelog[1].endTime

\* C2: an entry returned with the content and endTime recorded for its id
\* raises the stable_count by exactly 1 and is no candidate; the record is
\* kept as it is when the batch ends; a batch without a new or changed entry
\* sends no change notification.
C2_Unchanged ==
    [][/\ (/\ Iteration
           /\ lifelog'[1].id \in DOMAIN last_lifelogs
           /\ lifelog'[1].content = last_lifelogs[lifelog'[1].id].content
           /\ lifelog'[1].endTime = last_lifelogs[lifelog'[1].id].endTime) =>
              /\ last_lifelogs'[lifelog'[1].id].stable_count =
                     last_lifelogs[lifelog'[1].id].stable_count + 1
              /\ last_lifelogs'[lifelog'[1].id].content = lifelog'[1].content
              /\ last_lifelogs'[lifelog'[1].id].endTime = lifelog'[1].endTime
              /\ most_recent_update' = most_recent_update
       /\ (pc = "loop" /\ pc' = "notify") =>
              \A i \in updated_ids : /\ i \in DOMAIN last_lifelogs'
                                      /\ last_lifelogs'[i] = last_lifelogs[i]
       /\ (pc = "notify" /\ changed_ids = {}) => ntfy' = None
      ]_vars

\* a successful batch of two unchanged entries: counts raised, nothing notified
C2_Witness ==
    /\ pc = "advance"
    /\ updated_ids = Ids
    /\ changed_ids = {}
    /\ ntfy = None
    /\ \A i \in Ids : last_lifelogs[i].stable_count >= 2

\* C3: an entry whose content or endTime differs from the record of its id
\* overwrites the record with stable_count 1, and where it becomes the most
\* recent update the previous content is the content recorded before.
C3_Changed ==
    [][(/\ Iteration
        /\ lifelog'[1].id \in DOMAIN last_lifelogs
        /\ \/ lifelog'[1].content # last_lifelogs[lifelog'[1].id].content
           \/ lifelog'[1].endTime # last_lifelogs[lifelog'[1].id].endTime) =>
          /\ last_lifelogs'[lifelog'[1].id] =
                 [content |-> lifelog'[1].content,
                  endTime |-> lifelog'[1].endTime,
                  stable_count |-> 1]
          /\ most_recent_update = None =>
                 most_recent_update' =
                    Some([lifelog |-> lifelog'[1],
                          prev |-> last_lifelogs[lifelog'[1].id].content])
          /\ (most_recent_update' # None
               /\ most_recent_update'[1].lifelog = lifelog'[1]) =>
                 most_recent_update'[1].prev =
                    last_lifelogs[lifelog'[1].id].content
      ]_vars

\* an entry that had been stable (the cursor stands at its old endTime) came
\* back changed: count 1, candidate with the old content
C3_Witness ==
    /\ pc = "loop"
    /\ lifelog # None
    /\ most_recent_update # None
    /\ most_recent_update[1].lifelog = lifelog[1]
    /\ most_recent_update[1].prev # <<>>
    /\ most_recent_update[1].prev # lifelog[1].content
    /\ last_lifelogs[lifelog[1].id].stable_count = 1
    /\ DOMAIN written_logs = {lifelog[1].id}
    /\ last_stable_end_time # None

\* C4: once the batch is reconciled the tracked ids are the ids of the batch.
C4_TrackedIsBatch ==
    pc \in {"notify", "advance", "sleep"} => DOMAIN last_lifelogs = updated_ids

\* a record that had reached the stability threshold was dropped
C4_Witness ==
    /\ pc = "notify"
    /\ \E i \in DOMAIN dropped : dropped[i] >= STABLE_POLLS_REQUIRED

\* C5: the cursor never moves to a smaller value.
C5_CursorMonotone ==
    [][last_stable_end_time # None =>
          /\ last_stable_end_time' # None
          /\ last_stable_end_time'[1] >= last_stable_end_time[1]
      ]_vars

\* C6: the cursor advance sets the cursor to the greatest endTime among the
\* records with stable_count >= STABLE_POLLS_REQUIRED, and leaves it alone
\* when there is none.
C6_CursorFromStable ==
    [][pc = "advance" =>
          LET st == {i \in DOMAIN last_lifelogs :
                        last_lifelogs[i].stable_count >= STABLE_POLLS_REQUIRED}
          IN  IF st = {}
              THEN last_stable_end_time' = last_stable_end_time
              ELSE \E i \in st :
                     /\ last_stable_end_time' = Some(last_lifelogs[i].endTime)
                     /\ \A j \in st :
                           last_lifelogs[j].endTime <= last_lifelogs[i].endTime
      ]_vars

\* one record has just reached the threshold and sets the cursor; the other,
\* seen unchanged twice and with a greater endTime, does not
C6_Witness ==
    /\ pc = "sleep"
    /\ \E i, j \in DOMAIN last_lifelogs :
          /\ last_lifelogs[i].stable_count = STABLE_POLLS_REQUIRED
          /\ last_lifelogs[j].stable_count = STABLE_POLLS_REQUIRED - 1
          /\ last_lifelogs[j].endTime > last_lifelogs[i].endTime
          /\ last_stable_end_time = Some(last_lifelogs[i].endTime)

\* C7: the most recent update of a batch is the new or changed entry with the
\* greatest endTime.
C7_GreatestEndTime ==
    (pc = "notify" /\ most_recent_update # None) =>
        \A i \in changed_ids :
            last_lifelogs[i].endTime <= most_recent_update[1].lifelog.endTime

RECURSIVE Pow2(_)
Pow2(n) == IF n = 0 THEN 1 ELSE 2 * Pow2(n - 1)

\* C8: after i failed cycles in a row the latest sleep was
\* min(5 * 2^(i-1), 300) and the backoff is min(5 * 2^i, 300); it never
\* exceeds BACKOFF_MAX and is BACKOFF_INITIAL again after a successful cycle.
C8_Backoff ==
    /\ backoff <= BACKOFF_MAX
    /\ pc # "except" => backoff = Min(BACKOFF_INITIAL * Pow2(fails), BACKOFF_MAX)
    /\ (pc = "fetch" /\ fails > 0) =>
          slept = Min(BACKOFF_INITIAL * Pow2(fails - 1), BACKOFF_MAX)

\* the seventh failure in a row sleeps for the cap
C8_Witness ==
    /\ pc = "fetch"
    /\ fails = 7
    /\ slept = BACKOFF_MAX
    /\ backoff = BACKOFF_MAX

\* C9: a successful cycle sleeps for the initial delay.
C9_SuccessSleepsInitial ==
    [][pc = "sleep" => slept' = BACKOFF_INITIAL]_vars

\* C10: an iteration appends the entry to the transcript exactly when its
\* content differs from written_logs of its id, and then records the content
\* in written_logs.
C10_WriteOnce ==
    [][Iteration =>
          LET e == lifelog'[1]
              differs == \/ e.id \notin DOMAIN written_logs
                         \/ written_logs[e.id] # e.content
              written == /\ transcript' = Append(transcript, Highlight(e.content))
                         /\ DOMAIN written_logs' = DOMAIN written_logs \cup {e.id}
                         /\ written_logs'[e.id] = e.content
                         /\ \A i \in DOMAIN written_logs \ {e.id} :
                               written_logs'[i] = written_logs[i]
          IN  /\ ~differs => /\ transcript' = transcript
                             /\ written_logs' = written_logs
              /\ (differs /\ pc' = "loop") => written
              /\ transcript' # transcript => (differs /\ written)
      ]_vars

\* an entry returned again with the content already written: one block in
\* the transcript after two polls
C10_Witness ==
    /\ pc = "loop"
    /\ lifelog # None
    /\ last_lifelogs[lifelog[1].id].stable_count >= 2
    /\ written_logs[lifelog[1].id] = lifelog[1].content
    /\ transcript = <<Highlight(lifelog[1].content)>>

\* the entries of a file: the marker lines and the lines under each of them
Entries(ls) ==
    LET ms == {k \in 1..Len(ls) : IsMarker(ls[k])}
        end(k) == IF \E m \in ms : m > k
                  THEN (CHOOSE m \in ms : m > k /\ \A n \in ms : n > k => m <= n) - 1
                  ELSE Len(ls)
    IN  [k \in ms |-> SubSeq(ls, k + 1, end(k))]

\* the entries whose trimmed body no earlier entry has, in the order of the file
RECURSIVE FirstOccurrences(_, _)
FirstOccurrences(ls, k) ==
    IF k > Len(ls) THEN <<>>
    ELSE IF /\ k \in DOMAIN Entries(ls)
            /\ \A j \in DOMAIN Entries(ls) :
                  j < k => Strip(Entries(ls)[j]) # Strip(Entries(ls)[k])
    THEN <<ls[k]>> \o Entries(ls)[k] \o FirstOccurrences(ls, k + Len(Entries(ls)[k]) + 1)
    ELSE IF k \in DOMAIN Entries(ls)
    THEN FirstOccurrences(ls, k + Len(Entries(ls)[k]) + 1)
    ELSE FirstOccurrences(ls, k + 1)

\* the sequences of blocks the writer can have appended to a new file
WrittenBlocks ==
    UNION {[1..n -> {Highlight(c) : c \in Contents}] : n \in 0..((MaxLines - 2) \div 2)}

\* C11: after deduplicate_transcript the file is the original preamble
\* followed by the first occurrence of every distinct trimmed body, in the
\* original order, so no two remaining entries have equal trimmed bodies; and
\* a file the transcript writer produced holds no block twice afterwards.
C11_FirstOccurrencesKept ==
    pc = "deduped" =>
        /\ LET k == FirstMarker(original) IN
           file = IF k = 0 THEN original
                  ELSE SubSeq(original, 1, k - 1) \o FirstOccurrences(original, k)
        /\ \A j, k \in DOMAIN Entries(file) :
              j # k => Strip(Entries(file)[j]) # Strip(Entries(file)[k])
        /\ \A bs \in WrittenBlocks :
              original = WriterFile(bs) =>
                  \E cs \in WrittenBlocks :
                      /\ file = WriterFile(cs)
                      /\ \A j, k \in 1..Len(cs) : j # k => cs[j] # cs[k]

\* C12: a second application of deduplicate_transcript leaves the file as the
\* first application left it.
C12_Idempotent ==
    [][pc = "deduped" /\ pc' = "again" => file' = file]_vars

C12_Witness ==
    /\ pc = "again"
    /\ file # original
    /\ Cardinality(DOMAIN Entries(file)) = 2

\* C13: within one run every trigger phrase, whatever its case, has at most
\* one delivered trigger notification, and the notification carries the time
\* of the first entry that contained the phrase.
C13_OncePerPhrase ==
    /\ \A j, k \in 1..Len(trigger_posts) :
          j # k => trigger_posts[j].phrase # trigger_posts[k].phrase
    /\ \A k \in 1..Len(trigger_posts) :
          trigger_posts[k].time = first_seen[trigger_posts[k].phrase]

C15_NothingLost ==
    pc = "sleep" =>
        \A i \in updated_ids :
            /\ i \in DOMAIN written_logs
            /\ written_logs[i] = last_lifelogs[i].content
            /\ \E k \in 1..Len(transcript) :
                  transcript[k] = Highlight(last_lifelogs[i].content)

\* a cycle failed at a transcript write and the cycle after it succeeded
C15_Witness ==
    /\ pc = "sleep"
    /\ fails > 0
    /\ entry_time > Len(transcript)
    /\ updated_ids # {}

C17_FilesystemFatal ==
    [][~ \/ /\ pc = "loop"
             /\ entry_time' > entry_time
             /\ transcript' = transcript
             /\ pc' = "except"
          \/ /\ pc = "notify"
             /\ ntfy' # None
             /\ pc' = "except"]_vars

\* C18: the steps of a cycle follow the order fetch, loop, notification,
\* cursor advance; the cursor changes only in the advance step, after a fetch,
\* transcript writes and a notification that all succeeded, and a cycle on the
\* failure path leaves it unchanged.
C18_CursorLast ==
    [][/\ pc' # pc =>
             <<pc, pc'>> \in {<<"fetch", "loop">>, <<"fetch", "except">>,
                              <<"loop", "notify">>, <<"loop", "except">>,
                              <<"notify", "advance">>, <<"notify", "except">>,
                              <<"advance", "sleep">>, <<"sleep", "fetch">>,
                              <<"except", "fetch">>}
       /\ last_stable_end_time' # last_stable_end_time =>
             /\ pc = "advance"
             /\ pc' = "sleep"
             /\ most_recent_update # None =>
                   ntfy = Some(most_recent_update[1].lifelog)
             /\ \A i \in updated_ids :
                   /\ i \in DOMAIN written_logs
                   /\ written_logs[i] = last_lifelogs[i].content
       /\ (pc = "except" \/ pc' = "except") =>
             last_stable_end_time' = last_stable_end_time]_vars

\* the cursor was advanced in a cycle that wrote and notified
C18_Witness ==
    /\ pc = "sleep"
    /\ ntfy # None
    /\ changed_ids # {}
    /\ \E i \in DOMAIN last_lifelogs :
          /\ last_lifelogs[i].stable_count = STABLE_POLLS_REQUIRED
          /\ last_stable_end_time = Some(last_lifelogs[i].endTime)

\* C19: an entry recorded as new or changed in a cycle that failed before its
\* change notification was sent is treated as new or changed by the next
\* successful cycle that returns it, and that cycle has a candidate.
C19_ChangeKept ==
    pc = "sleep" =>
        \A i \in pending \cap updated_ids :
            /\ i \in changed_ids
            /\ most_recent_update # None

\* C20: an iteration that completes has sent an alert for every trigger
\* phrase of the content that was not alerted before, and has added it to the
\* alerted set, wherever in the content the phrase stands.
C20_EveryPhraseAlerted ==
    [][Iteration /\ pc' = "loop" =>
          \A p \in Phrases(lifelog'[1].content) \ alerted_triggers :
              /\ p \in alerted_triggers'
              /\ \E k \in 1..Len(trigger_posts') :
                    /\ k > Len(trigger_posts)
                    /\ trigger_posts'[k].phrase = p]_vars

====
